---- MODULE Spec2Model ----
(***************************************************************************)
(* Model of papr's write-operation normalisation (src/src/utils.ts):       *)
(* timestampUpdateFilter, timestampBulkWriteOperation, cleanSetOnInsert    *)
(* and the type-level ProjectionType.                                      *)
(*                                                                         *)
(* JavaScript objects live in a heap (a sequence of objects addressed by   *)
(* reference), so that identity, aliasing and in-place mutation are        *)
(* observable.  An object literal allocates; a spread copies own           *)
(* properties; `delete` rewrites the object in place.                      *)
(***************************************************************************)
EXTENDS Integers, Sequences, FiniteSets, TLC

VARIABLES
  heap,        \* the JavaScript heap: heap[n] is the object behind reference n
  snapshot,    \* the heap as the caller built it, before any call
  fn,          \* the exported function under call
  args,        \* the arguments the caller passes (values, mostly references)
  clock,       \* the wall clock read by `new Date()`
  calls,       \* the calls made so far: what each returned and when it ran
  schema,      \* ProjectionType: the record shape TSchema (set of leaf paths)
  projection,  \* ProjectionType: the Projection type argument
  resolved     \* ProjectionType: the derived read shape

vars == <<heap, snapshot, fn, args, clock, calls, schema, projection, resolved>>

(***************************************************************************)
(* Bounds of the model.                                                    *)
(***************************************************************************)
MaxClock == 3
MaxCalls == 2
MaxStages == 2

(***************************************************************************)
(* JavaScript values.  A value is a tagged record; objects and arrays are  *)
(* references into the heap.  A Date is kept as the instant it holds.      *)
(***************************************************************************)
Undefined == [t |-> "undefined", v |-> 0]
Ref(n) == [t |-> "ref", v |-> n]
DateV(n) == [t |-> "date", v |-> n]
Str(n) == [t |-> "string", v |-> n]   \* Str(0) is the empty string ''
Num(n) == [t |-> "number", v |-> n]
True == [t |-> "boolean", v |-> 1]

\* A date the caller wrote into a descriptor; the clock starts after it.
CallerDate == DateV(0)

EmptyProps == [k \in {} |-> Undefined]

Obj(props) == [arr |-> FALSE, props |-> props]
Arr(props) == [arr |-> TRUE, props |-> props]

\* ToBoolean, as applied by `!x`
Truthy(x) ==
  CASE x.t = "undefined" -> FALSE
    [] x.t = "number" -> x.v # 0
    [] x.t = "string" -> x.v # 0
    [] x.t = "boolean" -> x.v = 1
    [] OTHER -> TRUE

\* x.k and x?.k : undefined when x is undefined or has no such property
Get(h, x, k) ==
  IF x.t = "ref" /\ k \in DOMAIN h[x.v].props THEN h[x.v].props[k] ELSE Undefined

\* The own enumerable properties a spread `...x` copies (none for undefined / false)
OwnProps(h, x) ==
  IF x.t = "ref" THEN h[x.v].props ELSE EmptyProps

\* { ...a, ...b } : later properties win
Spread(a, b) ==
  [k \in DOMAIN a \cup DOMAIN b |-> IF k \in DOMAIN b THEN b[k] ELSE a[k]]

\* cond && { k: x } inside a spread
SpreadIf(cond, k, x) ==
  IF cond THEN (k :> x) ELSE EmptyProps

\* Object.keys(x).length
KeyCount(props) == Cardinality(DOMAIN props)

\* An object literal: a fresh object at a fresh reference
Alloc(h, o) == Append(h, o)
Last(h) == Ref(Len(h))

IsArray(h, x) == x.t = "ref" /\ h[x.v].arr

\* The names every plain object inherits from Object.prototype, which the
\* `in` operator finds as well as own properties
ObjectPrototypeKeys == {"constructor", "toString", "valueOf", "hasOwnProperty"}

\* key in x
In(h, k, x) ==
  x.t = "ref" /\ (k \in DOMAIN h[x.v].props \/ k \in ObjectPrototypeKeys)

(***************************************************************************)
(* timestampUpdateFilter and timestampBulkWriteOperation.                  *)
(* Each returns [heap |-> the heap after the call, ret |-> the value       *)
(* returned].                                                              *)
(***************************************************************************)

\* !update.$set?.<field> && !update.$unset?.<field>
NotTargeted(h, update, field) ==
  /\ ~Truthy(Get(h, Get(h, update, "$set"), field))
  /\ ~Truthy(Get(h, Get(h, update, "$unset"), field))

\* const $currentDate = { ...update.$currentDate, ...(cond && { updatedAt: true }) }
CurrentDateGroup(h, update) ==
  Spread(OwnProps(h, Get(h, update, "$currentDate")),
         SpreadIf(NotTargeted(h, update, "updatedAt"), "updatedAt", True))

\* const $setOnInsert = { ...update.$setOnInsert, ...(cond && { createdAt: new Date() }) }
SetOnInsertGroup(h, update, now) ==
  Spread(OwnProps(h, Get(h, update, "$setOnInsert")),
         SpreadIf(NotTargeted(h, update, "createdAt"), "createdAt", DateV(now)))

\* A variant that stores the merged group into the caller's own update
timestampUpdateFilter_InPlace(h, update) ==
  LET cd == CurrentDateGroup(h, update)
      h1 == Alloc(h, Obj(cd))
  IN  [heap |-> [h1 EXCEPT ![update.v].props =
                   Spread(@, SpreadIf(KeyCount(cd) > 0, "$currentDate", Last(h1)))],
       ret |-> update]

timestampUpdateFilter(h, update) ==
  LET cd == CurrentDateGroup(h, update)
      h1 == Alloc(h, Obj(cd))
      h2 == Alloc(h1, Obj(Spread(OwnProps(h, update),
                                 SpreadIf(KeyCount(cd) > 0, "$currentDate", Last(h1)))))
  IN  [heap |-> h2, ret |-> Last(h2)]

\* A variant that spreads the caller's document before the injected timestamps
InsertOneBranch_InjectedLast(h, operation, d1, d2) ==
  LET document == Get(h, Get(h, operation, "insertOne"), "document")
      h1 == Alloc(h, Obj(Spread(OwnProps(h, document),
                                ("createdAt" :> DateV(d1)) @@ ("updatedAt" :> DateV(d2)))))
      h2 == Alloc(h1, Obj("document" :> Last(h1)))
      h3 == Alloc(h2, Obj("insertOne" :> Last(h2)))
  IN  [heap |-> h3, ret |-> Last(h3)]

\* The insertOne branch: d1 and d2 are the two successive `new Date()` readings
InsertOneBranch(h, operation, d1, d2) ==
  LET document == Get(h, Get(h, operation, "insertOne"), "document")
      h1 == Alloc(h, Obj(Spread(("createdAt" :> DateV(d1)) @@ ("updatedAt" :> DateV(d2)),
                                OwnProps(h, document))))
      h2 == Alloc(h1, Obj("document" :> Last(h1)))
      h3 == Alloc(h2, Obj("insertOne" :> Last(h2)))
  IN  [heap |-> h3, ret |-> Last(h3)]

\* The updateOne and the updateMany branch (the same code under either tag)
UpdateBranch(h, operation, tag, now) ==
  LET model == Get(h, operation, tag)
      update == Get(h, model, "update")
      cd == CurrentDateGroup(h, update)
      soi == SetOnInsertGroup(h, update, now)
      h1 == Alloc(h, Obj(cd))
      h2 == Alloc(h1, Obj(soi))
      h3 == Alloc(h2, Obj(Spread(Spread(OwnProps(h, update),
                                        SpreadIf(KeyCount(cd) > 0, "$currentDate", Last(h1))),
                                 SpreadIf(KeyCount(soi) > 0, "$setOnInsert", Last(h2)))))
      h4 == Alloc(h3, Obj(Spread(OwnProps(h, model), "update" :> Last(h3))))
      h5 == Alloc(h4, Obj(tag :> Last(h4)))
  IN  IF IsArray(h, update)
      THEN [heap |-> h, ret |-> operation]
      ELSE [heap |-> h5, ret |-> Last(h5)]

ReplaceOneBranch(h, operation, d1, d2) ==
  LET model == Get(h, operation, "replaceOne")
      replacement == Get(h, model, "replacement")
      h1 == Alloc(h, Obj(Spread(("createdAt" :> DateV(d1)) @@ ("updatedAt" :> DateV(d2)),
                                OwnProps(h, replacement))))
      h2 == Alloc(h1, Obj(Spread(OwnProps(h, model), "replacement" :> Last(h1))))
      h3 == Alloc(h2, Obj("replaceOne" :> Last(h2)))
  IN  [heap |-> h3, ret |-> Last(h3)]

timestampBulkWriteOperation(h, operation, d1, d2) ==
  IF In(h, "insertOne", operation) THEN InsertOneBranch(h, operation, d1, d2)
  ELSE IF In(h, "updateOne", operation) THEN UpdateBranch(h, operation, "updateOne", d1)
  ELSE IF In(h, "updateMany", operation) THEN UpdateBranch(h, operation, "updateMany", d1)
  ELSE IF In(h, "replaceOne", operation) THEN ReplaceOneBranch(h, operation, d1, d2)
  ELSE [heap |-> h, ret |-> operation]

(***************************************************************************)
(* cleanSetOnInsert: deletes from $setOnInsert, in place, every key found  *)
(* `in` update.$set, $push, $inc or $unset, and returns $setOnInsert.      *)
(***************************************************************************)

\* key in (group || {}) : own properties of the group, or inherited ones
InGroup(h, key, group) ==
  key \in DOMAIN OwnProps(h, group) \/ key \in ObjectPrototypeKeys

Conflicts(h, key, update) ==
  \/ InGroup(h, key, Get(h, update, "$set"))
  \/ InGroup(h, key, Get(h, update, "$push"))
  \/ InGroup(h, key, Get(h, update, "$inc"))
  \/ InGroup(h, key, Get(h, update, "$unset"))

cleanSetOnInsert(h, setOnInsert, update) ==
  LET old == h[setOnInsert.v].props
      kept == {key \in DOMAIN old : ~Conflicts(h, key, update)}
  IN  [heap |-> [h EXCEPT ![setOnInsert.v].props = [key \in kept |-> old[key]]],
       ret |-> setOnInsert]

(***************************************************************************)
(* The descriptors a caller may build.  Each builder lays the caller's     *)
(* object graph out in a fresh heap, the descriptor itself last.           *)
(***************************************************************************)

\* The groups over some of the keys of valsOf, each key holding one of its values
Groups(valsOf) ==
  UNION {{g \in [S -> UNION {valsOf[k] : k \in S}] : \A k \in S : g[k] \in valsOf[k]}
         : S \in SUBSET DOMAIN valsOf}

Optional(choices) ==
  {[present |-> FALSE, props |-> EmptyProps]} \cup
  {[present |-> TRUE, props |-> p] : p \in choices}

\* Operator-document updates: each operator group absent or one of its choices.
\* $set and $unset carry truthy and falsy values under the timestamp fields.
UpdateDocs ==
  [set : Optional(Groups([updatedAt |-> {CallerDate, Num(0)},
                          createdAt |-> {CallerDate, Num(0)},
                          status |-> {Str(2)}])),
   unset : Optional(Groups([updatedAt |-> {Str(0), Num(1)},
                            createdAt |-> {Str(0), Num(1)}])),
   inc : Optional({"count" :> Num(1)}),
   currentDate : Optional(Groups([updatedAt |-> {True}, lastSeen |-> {True}])),
   setOnInsert : Optional(Groups([createdAt |-> {CallerDate}, status |-> {Str(1)}]))]

OpOrder == <<"$set", "$unset", "$inc", "$currentDate", "$setOnInsert">>

\* The group a choice of descriptor d gives operator op
GroupOf(d, op) ==
  CASE op = "$set" -> d.set
    [] op = "$unset" -> d.unset
    [] op = "$inc" -> d.inc
    [] op = "$push" -> d.push
    [] op = "$addToSet" -> d.addToSet
    [] op = "$currentDate" -> d.currentDate
    [] op = "$setOnInsert" -> d.setOnInsert

\* { $set: {...}, $unset: {...}, ... } with only the present groups of d, laid out
\* after `base` earlier objects: the groups first, the update document last
UpdateHeapAt(base, order, d) ==
  LET present == SelectSeq(order, LAMBDA op : GroupOf(d, op).present)
      groups == [i \in 1..Len(present) |-> Obj(GroupOf(d, present[i]).props)]
      update == Obj([op \in {present[i] : i \in 1..Len(present)} |->
                       Ref(base + (CHOOSE i \in 1..Len(present) : present[i] = op))])
  IN  Append(groups, update)

UpdateHeap(d) == UpdateHeapAt(0, OpOrder, d)

\* An aggregation pipeline [ { $set: { status: 1 } }, { $set: { status: 2 } }, ... ]
PipelineHeap(n) ==
  LET cells == [j \in 1..(2 * n) |->
                  IF j % 2 = 1 THEN Obj("status" :> Str((j + 1) \div 2))
                               ELSE Obj("$set" :> Ref(j - 1))]
      stages == Arr([k \in {ToString(i - 1) : i \in 1..n} |->
                       Ref(2 * (CHOOSE i \in 1..n : ToString(i - 1) = k))])
  IN  Append(cells, stages)

UpdateHeaps ==
  {UpdateHeap(d) : d \in UpdateDocs} \cup {PipelineHeap(n) : n \in 1..MaxStages}

\* { <tag>: { filter: { status: 'open' }, update: <the update built in h>, upsert: true } }
UpdateModelHeap(h, tag) ==
  LET h1 == Alloc(h, Obj("status" :> Str(1)))
      h2 == Alloc(h1, Obj(("filter" :> Last(h1)) @@ ("update" :> Last(h)) @@ ("upsert" :> True)))
  IN  Alloc(h2, Obj(tag :> Last(h2)))

\* Documents for insertOne and replaceOne: the caller may supply either timestamp
Documents ==
  Groups([createdAt |-> {CallerDate, Undefined},
          updatedAt |-> {CallerDate, Undefined},
          status |-> {Str(1)}])

\* { insertOne: { document: doc } }
InsertOneHeap(doc) ==
  <<Obj(doc), Obj("document" :> Ref(1)), Obj("insertOne" :> Ref(2))>>

\* { replaceOne: { filter: { status: 'open' }, replacement: doc, upsert: true } }
ReplaceOneHeap(doc) ==
  <<Obj(doc), Obj("status" :> Str(1)),
    Obj(("filter" :> Ref(2)) @@ ("replacement" :> Ref(1)) @@ ("upsert" :> True)),
    Obj("replaceOne" :> Ref(3))>>

\* { <tag>: { filter: { status: 'open' } } }
DeleteHeap(tag) ==
  <<Obj("status" :> Str(1)), Obj("filter" :> Ref(1)), Obj(tag :> Ref(2))>>

OperationHeaps ==
  {UpdateModelHeap(h, tag) : h \in UpdateHeaps, tag \in {"updateOne", "updateMany"}}
  \cup {InsertOneHeap(doc) : doc \in Documents}
  \cup {ReplaceOneHeap(doc) : doc \in Documents}
  \cup {DeleteHeap(tag) : tag \in {"deleteOne", "deleteMany"}}

(***************************************************************************)
(* The timestamp specification: the caller builds one descriptor and       *)
(* passes it, possibly more than once, to one of the two functions.        *)
(***************************************************************************)
NoShape == {}

InitTimestamps ==
  /\ fn \in {"timestampUpdateFilter", "timestampBulkWriteOperation"}
  /\ heap \in (IF fn = "timestampUpdateFilter" THEN UpdateHeaps ELSE OperationHeaps)
  /\ snapshot = heap
  /\ args = <<Last(heap)>>
  /\ clock = 1
  /\ calls = <<>>
  /\ schema = NoShape
  /\ projection = [given |-> FALSE, markers |-> EmptyProps]
  /\ resolved = NoShape

Returned(r, t0, t1) ==
  /\ heap' = r.heap
  /\ calls' = Append(calls, [ret |-> r.ret, t0 |-> t0, t1 |-> t1])
  /\ clock' = t1
  /\ UNCHANGED <<snapshot, fn, args, schema, projection, resolved>>

CallTimestampUpdateFilter ==
  /\ fn = "timestampUpdateFilter"
  /\ Len(calls) < MaxCalls
  /\ Returned(timestampUpdateFilter(heap, args[1]), clock, clock)

\* How many times the branch taken evaluates `new Date()`
NewDateCalls(h, operation) ==
  IF In(h, "insertOne", operation) THEN 2
  ELSE IF In(h, "updateOne", operation) \/ In(h, "updateMany", operation) THEN 1
  ELSE IF In(h, "replaceOne", operation) THEN 2
  ELSE 0

\* The wall clock may advance before and between the readings of `new Date()`;
\* d1 and d2 are the readings, in order, of the branch that reads it
CallTimestampBulkWriteOperation ==
  /\ fn = "timestampBulkWriteOperation"
  /\ Len(calls) < MaxCalls
  /\ \E d1 \in clock..MaxClock :
       \E d2 \in d1..MaxClock :
         /\ NewDateCalls(heap, args[1]) < 2 => d2 = d1
         /\ NewDateCalls(heap, args[1]) < 1 => d1 = clock
         /\ Returned(timestampBulkWriteOperation(heap, args[1], d1, d2), clock, d2)

NextTimestamps ==
  \/ CallTimestampUpdateFilter
  \/ CallTimestampBulkWriteOperation

Spec == InitTimestamps /\ [][NextTimestamps]_vars

(***************************************************************************)
(* The cleanSetOnInsert specification: the caller passes a $setOnInsert    *)
(* group and an update descriptor.                                         *)
(***************************************************************************)
CleanKeys == {"createdAt", "status", "constructor"}

\* A value that tells the keys of a set-on-insert group apart
DefaultOf(key) ==
  CASE key = "createdAt" -> CallerDate
    [] key = "status" -> Str(1)
    [] OTHER -> Str(2)

SetOnInserts == {[key \in S |-> DefaultOf(key)] : S \in SUBSET CleanKeys}

\* An operator group of the update: empty, or targeting one field
TargetGroups == {EmptyProps} \cup {key :> Num(1) : key \in CleanKeys}

CleanOrder == <<"$set", "$push", "$inc", "$unset", "$addToSet">>

CleanDocs ==
  [set : Optional(TargetGroups), push : Optional(TargetGroups), inc : Optional(TargetGroups),
   unset : Optional(TargetGroups), addToSet : Optional(TargetGroups)]

InitClean ==
  /\ fn = "cleanSetOnInsert"
  /\ \E soi \in SetOnInserts, d \in CleanDocs :
       heap = <<Obj(soi)>> \o UpdateHeapAt(1, CleanOrder, d)
  /\ snapshot = heap
  /\ args = <<Ref(1), Last(heap)>>
  /\ clock = 1
  /\ calls = <<>>
  /\ schema = NoShape
  /\ projection = [given |-> FALSE, markers |-> EmptyProps]
  /\ resolved = NoShape

CallCleanSetOnInsert ==
  /\ fn = "cleanSetOnInsert"
  /\ Len(calls) < MaxCalls
  /\ Returned(cleanSetOnInsert(heap, args[1], args[2]), clock, clock)

NextClean == CallCleanSetOnInsert

SpecClean == InitClean /\ [][NextClean]_vars

(***************************************************************************)
(* ProjectionType<TSchema, Projection>.  A record shape is the set of its  *)
(* leaf paths; a path is the sequence of field names that Join<..., '.'>   *)
(* writes with dots.                                                       *)
(***************************************************************************)

\* Join<NestedPaths<T>, '.'> : the paths to every field, nested object fields included
NestedPaths(T) == UNION {{SubSeq(p, 1, n) : n \in 1..Len(p)} : p \in T}

\* WithId<T> : T without _id, with _id
WithId(T) == {p \in T : p[1] # "_id"} \cup {<<"_id">>}

\* DeepPick<T, Paths> : the fields of T under a picked path
RECURSIVE DeepPick(_, _)
DeepPick(T, paths) ==
  UNION {IF <<k>> \in paths \/ <<k>> \in T
           THEN {p \in T : p[1] = k}
           ELSE {<<k>> \o q : q \in DeepPick({Tail(p) : p \in {r \in T : r[1] = k}},
                                             {Tail(p) : p \in {r \in paths : r[1] = k}})}
         : k \in {p[1] : p \in paths} \cap {p[1] : p \in T}}

\* A variant that forgets WithId around the picked shape
ProjectionType_NoWithId(T, P) ==
  IF ~P.given THEN WithId(T) ELSE DeepPick(T, DOMAIN P.markers)

\* undefined extends Projection ? WithId<TSchema>
\*                              : WithId<DeepPick<TSchema, keyof Projection & string>>
ProjectionType(T, P) ==
  IF ~P.given THEN WithId(T) ELSE WithId(DeepPick(T, DOMAIN P.markers))

Schemas ==
  {{<<"_id">>, <<"a">>, <<"b">>, <<"c">>},
   {<<"_id">>, <<"a">>, <<"b", "x">>, <<"b", "y">>, <<"c">>}}

\* Partial<Record<Join<NestedPaths<WithId<TSchema>>, '.'>, number>> | undefined
Projections(T) ==
  {[given |-> FALSE, markers |-> EmptyProps]} \cup
  {[given |-> TRUE, markers |-> m] :
     m \in UNION {[S -> {0, 1}] : S \in SUBSET NestedPaths(WithId(T))}}

InitProjection ==
  /\ fn = "ProjectionType"
  /\ schema \in Schemas
  /\ projection \in Projections(schema)
  /\ resolved = NoShape
  /\ heap = <<>>
  /\ snapshot = <<>>
  /\ args = <<>>
  /\ clock = 1
  /\ calls = <<>>

ResolveProjectionType ==
  /\ fn = "ProjectionType"
  /\ resolved = NoShape
  /\ resolved' = ProjectionType(schema, projection)
  /\ UNCHANGED <<heap, snapshot, fn, args, clock, calls, schema, projection>>

NextProjection == ResolveProjectionType

SpecProjection == InitProjection /\ [][NextProjection]_vars

(***************************************************************************)
(* Vocabulary of the properties.                                           *)
(***************************************************************************)

\* The value behind x with every reference followed: what deep equality compares
RECURSIVE Deref(_, _)
Deref(h, x) ==
  IF x.t = "ref"
  THEN [arr |-> h[x.v].arr,
        props |-> [k \in DOMAIN h[x.v].props |-> Deref(h, h[x.v].props[k])]]
  ELSE x

Keys(h, x) == DOMAIN OwnProps(h, x)

\* The tag of the caller's bulk operation
Kind == CHOOSE k \in Keys(snapshot, args[1]) : TRUE

IsBulk(kinds) == fn = "timestampBulkWriteOperation" /\ Kind \in kinds

\* The update the caller passed, directly or inside an updateOne / updateMany
CallerUpdate ==
  IF fn = "timestampUpdateFilter" THEN args[1]
  ELSE Get(snapshot, Get(snapshot, args[1], Kind), "update")

ResultUpdate(c) ==
  IF fn = "timestampUpdateFilter" THEN c.ret
  ELSE Get(heap, Get(heap, c.ret, Kind), "update")

UpdateCall ==
  fn = "timestampUpdateFilter" \/ IsBulk({"updateOne", "updateMany"})

OperatorUpdate == UpdateCall /\ CallerUpdate.t = "ref" /\ ~IsArray(snapshot, CallerUpdate)
PipelineUpdate == UpdateCall /\ IsArray(snapshot, CallerUpdate)

\* The caller's group under operator op, and the result's
CallerGroup(op) == Get(snapshot, CallerUpdate, op)
ResultGroup(c, op) == Get(heap, ResultUpdate(c), op)

\* Whether the caller's $set or $unset group has the key
CallerTargets(key) ==
  key \in Keys(snapshot, CallerGroup("$set")) \cup Keys(snapshot, CallerGroup("$unset"))

DocKey == IF Kind = "insertOne" THEN "document" ELSE "replacement"
CallerModel == Get(snapshot, args[1], Kind)
CallerDoc == OwnProps(snapshot, Get(snapshot, CallerModel, DocKey))
ResultModel(c) == Get(heap, c.ret, Kind)
ResultDoc(c) == OwnProps(heap, Get(heap, ResultModel(c), DocKey))

Timestamps == {"createdAt", "updatedAt"}

\* A Date holding a reading of the clock taken during call c
ReadDuring(c, x) == x.t = "date" /\ x.v \in c.t0..c.t1

Called == {calls[i] : i \in DOMAIN calls}

(***************************************************************************)
(* Properties.                                                             *)
(***************************************************************************)

\* C1: after any number of calls of timestampUpdateFilter or
\* timestampBulkWriteOperation (all six kinds), the caller's input object and
\* everything reachable from it are deep-equal to the snapshot taken before.
C1_InputUnchanged ==
  /\ \A i \in DOMAIN args : Deref(heap, args[i]) = Deref(snapshot, args[i])
  /\ \A n \in DOMAIN snapshot : heap[n] = snapshot[n]

\* C1 witness: a bulk updateOne on an operator document was normalised into a new
\* descriptor whose update gained a group the caller's update did not have.
C1_Witness ==
  /\ IsBulk({"updateOne"}) /\ OperatorUpdate
  /\ \E c \in Called :
       /\ c.ret # args[1]
       /\ Keys(heap, ResultUpdate(c)) # Keys(snapshot, CallerUpdate)

\* C2 (as claimed): every call of timestampBulkWriteOperation returns a descriptor
\* that is not, by identity, the descriptor passed in.
C2_AlwaysNewDescriptor ==
  fn = "timestampBulkWriteOperation" => \A c \in Called : c.ret # args[1]

\* C3 (as claimed): when the caller's $set or $unset group has the key updatedAt,
\* the result's $currentDate group does not contain updatedAt.
C3_NoCurrentDateWhenTargeted ==
  (OperatorUpdate /\ CallerTargets("updatedAt")) =>
    \A c \in Called : "updatedAt" \notin Keys(heap, ResultGroup(c, "$currentDate"))

\* C4 (as claimed): a pipeline update comes back value-identical, from
\* timestampUpdateFilter and from timestampBulkWriteOperation alike.
C4_PipelinePassthrough ==
  PipelineUpdate =>
    \A c \in Called : Deref(heap, c.ret) = Deref(snapshot, args[1])

\* C6: for insertOne and replaceOne the returned document has both timestamps;
\* a timestamp the caller supplied keeps the caller's value, one the caller did
\* not supply holds a reading of the clock taken during the call, every other
\* caller field is carried over, and so are the other fields of the operation.
C6_InsertReplacePrecedence ==
  IsBulk({"insertOne", "replaceOne"}) =>
    \A c \in Called :
      /\ DOMAIN ResultDoc(c) = DOMAIN CallerDoc \cup Timestamps
      /\ \A k \in DOMAIN CallerDoc : ResultDoc(c)[k] = CallerDoc[k]
      /\ \A k \in Timestamps \ DOMAIN CallerDoc : ReadDuring(c, ResultDoc(c)[k])
      /\ Keys(heap, c.ret) = {Kind}
      /\ Keys(heap, ResultModel(c)) = Keys(snapshot, CallerModel)
      /\ \A k \in Keys(snapshot, CallerModel) \ {DocKey} :
           Deref(heap, Get(heap, ResultModel(c), k))
             = Deref(snapshot, Get(snapshot, CallerModel, k))

\* C6 witness: an insertOne whose caller supplied createdAt (a date) but not
\* updatedAt has been normalised.
C6_Witness ==
  /\ IsBulk({"insertOne"})
  /\ "createdAt" \in DOMAIN CallerDoc /\ "updatedAt" \notin DOMAIN CallerDoc
  /\ CallerDoc["createdAt"] = CallerDate
  /\ \E c \in Called : ResultDoc(c)["createdAt"] = CallerDate /\ c.t1 > c.t0

\* C7 (as claimed): for updateOne / updateMany on an operator document the
\* result's $setOnInsert is the caller's merged with { createdAt: now } when
\* neither $set nor $unset has the key createdAt, and the caller's $setOnInsert
\* with nothing injected when either has it.
C7_CreatedAtRule ==
  (IsBulk({"updateOne", "updateMany"}) /\ OperatorUpdate) =>
    \A c \in Called :
      LET mine == OwnProps(snapshot, CallerGroup("$setOnInsert"))
          got == OwnProps(heap, ResultGroup(c, "$setOnInsert"))
      IN  IF CallerTargets("createdAt")
          THEN got = mine
          ELSE \E now \in c.t0..c.t1 : got = Spread(mine, "createdAt" :> DateV(now))

\* C9 (as claimed): when the caller's document supplies neither timestamp, the
\* injected createdAt and updatedAt of an insertOne / replaceOne are equal.
C9_SingleSnapshot ==
  (IsBulk({"insertOne", "replaceOne"}) /\ DOMAIN CallerDoc \cap Timestamps = {}) =>
    \A c \in Called : ResultDoc(c)["createdAt"] = ResultDoc(c)["updatedAt"]

\* C10 (as claimed): the result of an operator-document update has a
\* $currentDate key, and for bulk updates a $setOnInsert key, only if that
\* group is non-empty.
C10_OnlyNonEmptyGroups ==
  OperatorUpdate =>
    \A c \in Called :
      \A op \in {"$currentDate", "$setOnInsert"} :
        op \in Keys(heap, ResultUpdate(c)) => Keys(heap, ResultGroup(c, op)) # {}

\* C5 (as claimed): cleanSetOnInsert(S, U) returns the group whose keys are
\* exactly the keys of S that are keys of none of U.$set, U.$push, U.$inc,
\* U.$unset, each with its original value.
C5_ExactlyNonConflicting ==
  fn = "cleanSetOnInsert" =>
    \A c \in Called :
      LET S == snapshot[args[1].v].props
          targeted == UNION {Keys(snapshot, Get(snapshot, args[2], op))
                             : op \in {"$set", "$push", "$inc", "$unset"}}
      IN  OwnProps(heap, c.ret) = [k \in DOMAIN S \ targeted |-> S[k]]

IsPrefix(q, p) == Len(q) <= Len(p) /\ SubSeq(p, 1, Len(q)) = q

C5_OrdinaryKeysOnly ==
  fn = "cleanSetOnInsert" =>
    \A c \in Called :
      LET S == snapshot[args[1].v].props
          targeted == UNION {Keys(snapshot, Get(snapshot, args[2], op))
                             : op \in {"$set", "$push", "$inc", "$unset"}}
      IN  \A k \in DOMAIN S \ ObjectPrototypeKeys :
            /\ (k \in Keys(heap, c.ret)) <=> (k \notin targeted)
            /\ k \in Keys(heap, c.ret) => Get(heap, c.ret, k) = S[k]

====
